---- MODULE Spec2Model ----
(***************************************************************************)
(* pydantic_django/types.py: the translation of a Django model field into  *)
(* a (python_type, FieldInfo) pair (DjangoField), the static type tables   *)
(* it reads, and the GenericIPAddressField value type with its validator.  *)
(*                                                                         *)
(* Python values are modelled as strings ("None" is None, "..." is the     *)
(* Ellipsis that pydantic reads as "required"); a typing expression is the *)
(* sequence of its parts, <<>> standing for python_type = None.            *)
(***************************************************************************)
EXTENDS Integers, Sequences, FiniteSets, TLC

VARIABLES
    FIELD_TYPES,    \* module global: internal-type name -> python type
    INT_TYPES,      \* module global: list of integer-like names
    STR_TYPES,      \* module global: list of string-like names
    field,          \* the field descriptor the caller holds
    given,          \* that descriptor as the caller built it
    result,         \* outcome of the latest DjangoField(field) call
    first,          \* outcome of the first DjangoField call on this descriptor
    calls,          \* DjangoField calls made on this descriptor
    protocol,       \* GenericIPAddressField.protocol (class attribute)
    v,              \* the value handed to GenericIPAddressField.validate
    validated       \* outcome of the validate call

vars == <<FIELD_TYPES, INT_TYPES, STR_TYPES, field, given, result, first, calls,
          protocol, v, validated>>

(* ------------------------------ bounds --------------------------------- *)

\* Classes between type(field) and object in the walked hierarchy.
MaxAncestors == 2
\* DjangoField calls made on one descriptor.
MaxCalls == 2
\* Groups of a colon-separated literal shorter than a full address.
MaxShortGroups == 2

(* --------------------------- python values ----------------------------- *)

None == "None"
Ellipsis == "..."

InList(x, l) == \E i \in DOMAIN l : l[i] = x

DictGet(d, key, dflt) == IF key \in DOMAIN d THEN d[key] ELSE dflt

\* dict.pop(key, dflt): the value, and the dict without the key.
DictPop(d, key, dflt) ==
    [value |-> IF key \in DOMAIN d THEN d[key] ELSE dflt,
     rest  |-> [k \in DOMAIN d \ {key} |-> d[k]]]

EmptyDict == [k \in {} |-> FALSE]

SeqsUpTo(S, n) == UNION {[1..k -> S] : k \in 0..n}

(* ----------------------------- the tables ------------------------------ *)

IntTypesInit ==
    <<"AutoField", "IntegerField", "SmallIntegerField", "BigIntegerField",
      "PositiveIntegerField", "PositiveSmallIntegerField">>

StrTypesInit ==
    <<"CharField", "EmailField", "URLField", "SlugField", "TextField",
      "FilePathField">>

FieldTypesInit ==
    ("GenericIPAddressField" :> "GenericIPAddressField") @@
    ("TextField" :> "str") @@
    ("BooleanField" :> "bool") @@
    ("BinaryField" :> "bytes") @@
    ("DateField" :> "date") @@
    ("DateTimeField" :> "datetime") @@
    ("DurationField" :> "timedelta") @@
    ("TimeField" :> "time") @@
    ("DecimalField" :> "Decimal") @@
    ("FloatField" :> "float") @@
    ("UUIDField" :> "UUID") @@
    ("JSONField" :> "Union[Json, dict, list]")

(* -------------------------- str.title() -------------------------------- *)

\* A label is a sequence of one-character strings.
Upper(c) ==
    CASE c = "i" -> "I" [] c = "d" -> "D" [] c = "p" -> "P" [] OTHER -> c

Lower(c) ==
    CASE c = "I" -> "i" [] c = "D" -> "d" [] c = "P" -> "p" [] OTHER -> c

IsCased(c) == c \in {"i", "d", "p", "I", "D", "P"}

\* str.title(): a cased character is upper-cased when it follows an uncased
\* one (or starts the string) and lower-cased otherwise.
StrTitle(s) ==
    [i \in DOMAIN s |->
        IF i = 1 \/ ~IsCased(s[i - 1]) THEN Upper(s[i]) ELSE Lower(s[i])]

(* ------------------------- field descriptors --------------------------- *)

\* type(field).__mro__ as the walk sees it: per class, the name its fresh
\* instance reports from get_internal_type(), or NoGetInternalType when the
\* instance has no such method. object closes every __mro__.
NoGetInternalType == "<no get_internal_type>"

ObjectClass == NoGetInternalType

Mro(f) == <<f.internal_type>> \o f.ancestors \o <<ObjectClass>>

NoTarget ==
    [help_text |-> "", verbose_name |-> <<>>, max_length |-> None,
     default |-> "NOT_PROVIDED"]

NoField ==
    [is_relation |-> FALSE, related_model |-> None, related_pk |-> None,
     model_pk |-> None, concrete |-> FALSE, auto_created |-> FALSE,
     null |-> FALSE, one_to_many |-> FALSE, many_to_many |-> FALSE,
     target_field |-> NoTarget,
     internal_type |-> None, ancestors |-> <<>>, max_length |-> None,
     primary_key |-> FALSE, kwargs |-> EmptyDict, default |-> "NOT_PROVIDED",
     help_text |-> "", verbose_name |-> <<>>]

\* Field.has_default(): a default was passed to the constructor.
has_default(f) == f.default # "NOT_PROVIDED"

\* callable(field.default)
callable(d) == d = "fn"

\* field.deconstruct()[3]: the keyword arguments, built afresh on each call.
deconstruct_kwargs(f) == f.kwargs

(* ---------------------------- FieldInfo -------------------------------- *)

\* pydantic.fields.FieldInfo(default, default_factory=, title=, description=,
\* max_length=): the arguments are stored as given.
FieldInfo(default, default_factory, title, description, max_length) ==
    [default |-> default, default_factory |-> default_factory, title |-> title,
     description |-> description, max_length |-> max_length]

NoInfo == FieldInfo(None, None, <<>>, None, None)

\* A label or its absence: title is None (<<"None">>) or a str.
NoTitle == <<None>>

Returned(python_type, info) ==
    [raised |-> None, message |-> <<>>, python_type |-> python_type,
     info |-> info]

Raised(exc, message) ==
    [raised |-> exc, message |-> message, python_type |-> <<>>, info |-> NoInfo]

NoResult == Raised("<not called>", <<>>)

(* ----------------------- DjangoField: relations ------------------------ *)

\* internal_type of the primary key the relation points at.
RelationInternalType(f) ==
    IF f.related_model = None THEN f.model_pk ELSE f.related_pk

\* Variant: the default policy applied outside the related-model branch.
RelationDefault_Unnested(f) ==
    IF ~f.concrete /\ f.auto_created THEN None
    ELSE IF f.null THEN None
    ELSE Ellipsis

\* default after the relation branch; it starts as ... and is only touched
\* inside the branch that has a related model.
RelationDefault(f) ==
    IF f.related_model = None THEN Ellipsis
    ELSE IF ~f.concrete /\ f.auto_created THEN None
    ELSE IF f.null THEN None
    ELSE Ellipsis

\* Variant: many_to_many left out of the cardinality test.
RelationPythonType_OneToManyOnly(f) ==
    LET pk_type == DictGet(FIELD_TYPES, RelationInternalType(f), "int")
    IN  IF f.one_to_many
        THEN <<"List", "Dict", "str", pk_type>>
        ELSE <<pk_type>>

\* pk_type = FIELD_TYPES.get(internal_type, int), shaped by cardinality.
RelationPythonType(f) ==
    LET pk_type == DictGet(FIELD_TYPES, RelationInternalType(f), "int")
    IN  IF f.one_to_many \/ f.many_to_many
        THEN <<"List", "Dict", "str", pk_type>>
        ELSE <<pk_type>>

\* The descriptor bound to the local name field when FieldInfo is built.
RelationRebind(f) ==
    IF f.related_model # None THEN f.target_field ELSE f

\* Variant: the metadata read from the rebound field, as the scalar branch
\* reads it from its own.
RelationInfo_FromTarget(f) ==
    FieldInfo(RelationDefault(f),
              IF callable(RelationRebind(f).default)
                  THEN RelationRebind(f).default ELSE None,
              StrTitle(RelationRebind(f).verbose_name),
              RelationRebind(f).help_text, RelationRebind(f).max_length)

\* The relation branch leaves default_factory, title, description and
\* max_length at their initial None; the rebound field is never read.
RelationInfo(f) ==
    FieldInfo(RelationDefault(f), None, NoTitle, None, None)

(* ------------------------ DjangoField: scalars ------------------------- *)

\* for field_class in type(field).__mro__: the first class whose fresh
\* instance reports a key of FIELD_TYPES; an instance without
\* get_internal_type ends the call with AttributeError.
RECURSIVE WalkMro(_, _)
WalkMro(mro, i) ==
    IF i > Len(mro) THEN [raised |-> None, python_type |-> <<>>]
    ELSE IF mro[i] = NoGetInternalType
        THEN [raised |-> "AttributeError", python_type |-> <<>>]
    ELSE IF mro[i] \in DOMAIN FIELD_TYPES
        THEN [raised |-> None, python_type |-> <<FIELD_TYPES[mro[i]]>>]
    ELSE WalkMro(mro, i + 1)

\* Variant: the table consulted before the two groups.
ScalarResolve_TableFirst(f) ==
    LET internal_type == f.internal_type
        walked == WalkMro(Mro(f), 1)
    IN  IF internal_type \in DOMAIN FIELD_TYPES
            THEN [raised |-> None,
                  python_type |-> <<FIELD_TYPES[internal_type]>>,
                  max_length |-> None]
        ELSE IF InList(internal_type, STR_TYPES)
            THEN [raised |-> None, python_type |-> <<"str">>,
                  max_length |-> f.max_length]
        ELSE IF InList(internal_type, INT_TYPES)
            THEN [raised |-> None, python_type |-> <<"int">>,
                  max_length |-> None]
        ELSE [raised |-> walked.raised, python_type |-> walked.python_type,
              max_length |-> None]

\* internal_type in STR_TYPES / INT_TYPES / FIELD_TYPES, else the walk;
\* max_length is captured in the string-like branch only.
ScalarResolve(f) ==
    LET internal_type == f.internal_type
        walked == WalkMro(Mro(f), 1)
    IN  IF InList(internal_type, STR_TYPES)
            THEN [raised |-> None, python_type |-> <<"str">>,
                  max_length |-> f.max_length]
        ELSE IF InList(internal_type, INT_TYPES)
            THEN [raised |-> None, python_type |-> <<"int">>,
                  max_length |-> None]
        ELSE IF internal_type \in DOMAIN FIELD_TYPES
            THEN [raised |-> None,
                  python_type |-> <<FIELD_TYPES[internal_type]>>,
                  max_length |-> None]
        ELSE [raised |-> walked.raised, python_type |-> walked.python_type,
              max_length |-> None]

\* Variant: primary_key / blank / null tested before has_default().
ScalarDefault_FlagsFirst(f) ==
    LET blank == DictGet(deconstruct_kwargs(f), "blank", FALSE)
        null  == DictGet(deconstruct_kwargs(f), "null", FALSE)
    IN  IF f.primary_key \/ blank \/ null
        THEN [default |-> None, default_factory |-> None]
        ELSE IF has_default(f)
        THEN IF callable(f.default)
             THEN [default |-> Ellipsis, default_factory |-> f.default]
             ELSE [default |-> f.default, default_factory |-> None]
        ELSE [default |-> Ellipsis, default_factory |-> None]

\* Variant: the flag test an if of its own, run after a callable default
\* was recorded.
ScalarDefault_FactoryFallsThrough(f) ==
    LET blank == DictGet(deconstruct_kwargs(f), "blank", FALSE)
        null  == DictGet(deconstruct_kwargs(f), "null", FALSE)
        flags == f.primary_key \/ blank \/ null
    IN  IF has_default(f) /\ ~callable(f.default)
        THEN [default |-> f.default, default_factory |-> None]
        ELSE [default |-> IF flags THEN None ELSE Ellipsis,
              default_factory |-> IF has_default(f) THEN f.default ELSE None]

\* default and default_factory after the scalar default policy.
ScalarDefault(f) ==
    LET field_options == deconstruct_kwargs(f)
        blank == DictPop(field_options, "blank", FALSE).value
        null  == DictPop(DictPop(field_options, "blank", FALSE).rest,
                         "null", FALSE).value
    IN  IF has_default(f)
        THEN IF callable(f.default)
             THEN [default |-> Ellipsis, default_factory |-> f.default]
             ELSE [default |-> f.default, default_factory |-> None]
        ELSE IF f.primary_key \/ blank \/ null
             THEN [default |-> None, default_factory |-> None]
        ELSE [default |-> Ellipsis, default_factory |-> None]

\* description = field.help_text; title = field.verbose_name.title()
ScalarInfo(f, max_length) ==
    FieldInfo(ScalarDefault(f).default, ScalarDefault(f).default_factory,
              StrTitle(f.verbose_name), f.help_text, max_length)

(* ---------------------------- DjangoField ------------------------------ *)

DjangoField(f) ==
    IF f.is_relation
    THEN Returned(RelationPythonType(f), RelationInfo(f))
    ELSE LET resolved == ScalarResolve(f)
         IN  IF resolved.raised # None
                 THEN Raised(resolved.raised, <<>>)
             ELSE IF resolved.python_type = <<>>
                 THEN Raised("FieldNotFoundError",
                             <<"Could not find ", f.internal_type>>)
             ELSE Returned(resolved.python_type,
                           ScalarInfo(f, resolved.max_length))

\* Variant: deconstruct() hands out the descriptor's own dict, so the pops
\* remove blank and null from the descriptor.
FieldAfterCall_PopsShared(f) ==
    IF f.is_relation THEN f
    ELSE [f EXCEPT !.kwargs =
            DictPop(DictPop(f.kwargs, "blank", FALSE).rest, "null", FALSE).rest]

\* The caller's descriptor after a call: blank and null are popped from the
\* dict deconstruct() built for this call, not from the descriptor.
FieldAfterCall(f) == f


(* -------------------- ipaddress and pydantic.networks ------------------ *)

\* A value handed to a validator:
\*   form "dotted": the str of decimal numbers parts joined by ".";
\*   form "colon":  the str of hexadecimal groups joined by ":", with "::"
\*                  between parts and tail when gap is TRUE;
\*   form "int":    the int parts[1];
\*   form "other":  anything else (None, "", a str of neither shape).
Value(form, parts, tail, gap) ==
    [form |-> form, parts |-> parts, tail |-> tail, gap |-> gap]

NoValue == Value("other", <<>>, <<>>, FALSE)

Parsed(family, groups) == [raised |-> None, family |-> family, groups |-> groups]

AddressValueError == [raised |-> "ValueError", family |-> None, groups |-> <<>>]

Zeros(n) == [i \in 1..n |-> 0]

\* ipaddress.IPv4Address(address): an int in range, or four decimal octets.
IPv4Address(a) ==
    IF a.form = "int"
    THEN IF a.parts[1] >= 0 /\ a.parts[1] \div 65536 < 65536
         THEN Parsed("ipv4", <<(a.parts[1] \div 16777216) % 256,
                               (a.parts[1] \div 65536) % 256,
                               (a.parts[1] \div 256) % 256,
                               a.parts[1] % 256>>)
         ELSE AddressValueError
    ELSE IF /\ a.form = "dotted"
            /\ Len(a.parts) = 4
            /\ \A i \in 1..4 : a.parts[i] \in 0..255
         THEN Parsed("ipv4", a.parts)
    ELSE AddressValueError

\* ipaddress.IPv6Address(address): a non-negative int (every int of the
\* model is below 2**128), eight groups, or fewer than eight around "::".
IPv6Address(a) ==
    IF a.form = "int"
    THEN IF a.parts[1] >= 0
         THEN Parsed("ipv6", Zeros(6) \o <<a.parts[1] \div 65536,
                                           a.parts[1] % 65536>>)
         ELSE AddressValueError
    ELSE IF /\ a.form = "colon"
            /\ \A i \in DOMAIN a.parts : a.parts[i] \in 0..65535
            /\ \A i \in DOMAIN a.tail : a.tail[i] \in 0..65535
            /\ IF a.gap THEN Len(a.parts) + Len(a.tail) <= 7
                        ELSE Len(a.parts) = 8 /\ a.tail = <<>>
         THEN Parsed("ipv6",
                     IF a.gap
                     THEN a.parts \o Zeros(8 - Len(a.parts) - Len(a.tail))
                              \o a.tail
                     ELSE a.parts)
    ELSE AddressValueError

\* pydantic.IPvAnyAddress(v): the class derives from ipaddress._BaseAddress
\* and defines neither __new__ nor __init__, so a call with an argument
\* raises TypeError before any parsing.
IPvAnyAddress(a) == [raised |-> "TypeError", family |-> None, groups |-> <<>>]

\* Length of the run of zero groups that starts at position i.
RECURSIVE ZeroRun(_, _)
ZeroRun(g, i) ==
    IF i > Len(g) \/ g[i] # 0 THEN 0 ELSE 1 + ZeroRun(g, i + 1)

\* str(address): the octets joined by "."; the groups joined by ":" with
\* the first longest run of two or more zero groups written as "::".
Str(addr) ==
    IF addr.family = "ipv4" THEN Value("dotted", addr.groups, <<>>, FALSE)
    ELSE LET g == addr.groups
             best == CHOOSE i \in 1..8 :
                        /\ \A j \in 1..8 : ZeroRun(g, j) <= ZeroRun(g, i)
                        /\ \A j \in 1..(i - 1) : ZeroRun(g, j) < ZeroRun(g, i)
             n == ZeroRun(g, best)
         IN  IF n > 1
             THEN Value("colon", SubSeq(g, 1, best - 1),
                        SubSeq(g, best + n, 8), TRUE)
             ELSE Value("colon", g, <<>>, FALSE)

(* ------------------- GenericIPAddressField.validate -------------------- *)

ValidateReturn(value) == [raised |-> None, value |-> value]

ValidateRaise(exc) == [raised |-> exc, value |-> NoValue]

\* One try/except ValueError block: str(parse(v)), the block's pydantic
\* error on ValueError, any other exception passed on.
TryParse(parsed, error) ==
    IF parsed.raised = None THEN ValidateReturn(Str(parsed))
    ELSE IF parsed.raised = "ValueError" THEN ValidateRaise(error)
    ELSE ValidateRaise(parsed.raised)

NotValidated == ValidateRaise("<not called>")

Unsupplied == Value("<no value>", <<>>, <<>>, FALSE)

\* Falling off the end of the function returns None.
ReturnsNone == [raised |-> None, value |-> Value(None, <<>>, <<>>, FALSE)]

validate(proto, a) ==
    IF proto = "both" THEN TryParse(IPvAnyAddress(a), "IPvAnyAddressError")
    ELSE IF proto = "ipv4" THEN TryParse(IPv4Address(a), "IPv4AddressError")
    ELSE IF proto = "ipv6" THEN TryParse(IPv6Address(a), "IPv6AddressError")
    ELSE ReturnsNone

(* ------------------------ the validated values ------------------------- *)

Octets == {0, 1, 255, 256}

ShortGroups == {0, 1, 65536}

Protocols == {"both", "ipv4", "ipv6", None}

Values ==
    {Value("dotted", p, <<>>, FALSE) :
        p \in [1..4 -> Octets] \cup SeqsUpTo(Octets, MaxShortGroups)}
    \cup {Value("colon", p, <<>>, FALSE) :
        p \in [1..8 -> {0, 1}] \cup SeqsUpTo(ShortGroups, MaxShortGroups)}
    \cup {Value("colon", p, t, TRUE) :
        p \in SeqsUpTo(ShortGroups, MaxShortGroups) \cup {Zeros(7)},
        t \in SeqsUpTo(ShortGroups, MaxShortGroups)}
    \cup {Value("int", <<n>>, <<>>, FALSE) : n \in {-1, 0, 1, 256, 16909060}}
    \cup {NoValue}

(* ------------------------ the caller's fields -------------------------- *)

Labels == {<<"i", "d">>, <<"I", "P", " ", "i", "d">>}

HelpTexts == {"", "help"}

MaxLengths == {None, "255"}

Defaults == {"NOT_PROVIDED", None, "val", "fn"}

Kwargs == UNION {[D -> BOOLEAN] : D \in SUBSET {"blank", "null"}}

\* Names in a group or in the table, and names in none of them.
KnownNames ==
    {IntTypesInit[i] : i \in DOMAIN IntTypesInit}
        \cup {StrTypesInit[i] : i \in DOMAIN StrTypesInit}
        \cup DOMAIN FieldTypesInit

CustomNames == {"CustomField"}

AncestorNames ==
    {"Field", "CharField", "IntegerField", "DateField", "UUIDField",
     NoGetInternalType}

PkNames == {"AutoField", "BigAutoField", "UUIDField", "CharField", "TextField"}

Targets ==
    {[help_text |-> "pk help", verbose_name |-> <<"i", "d">>,
      max_length |-> "255", default |-> "fn"],
     [help_text |-> "", verbose_name |-> <<"i", "d">>,
      max_length |-> None, default |-> "NOT_PROVIDED"]}

ScalarField(name, anc, ml, pk, kw, d, help, label) ==
    [NoField EXCEPT !.internal_type = name, !.ancestors = anc,
                    !.max_length = ml, !.primary_key = pk, !.kwargs = kw,
                    !.default = d, !.help_text = help, !.verbose_name = label]

RelationField(rel, rpk, mpk, con, auto, nul, o2m, m2m, tgt) ==
    [NoField EXCEPT !.is_relation = TRUE, !.related_model = rel,
                    !.related_pk = rpk, !.model_pk = mpk, !.concrete = con,
                    !.auto_created = auto, !.null = nul, !.one_to_many = o2m,
                    !.many_to_many = m2m, !.target_field = tgt]

(* ------------------------------ actions -------------------------------- *)

Init ==
    /\ FIELD_TYPES = FieldTypesInit
    /\ INT_TYPES = IntTypesInit
    /\ STR_TYPES = StrTypesInit
    /\ field = NoField
    /\ given = NoField
    /\ result = NoResult
    /\ first = NoResult
    /\ calls = 0
    /\ protocol = "both"
    /\ v = Unsupplied
    /\ validated = NotValidated

Hold(f) ==
    /\ field' = f
    /\ given' = f
    /\ result' = NoResult
    /\ first' = NoResult
    /\ calls' = 0
    /\ UNCHANGED <<FIELD_TYPES, INT_TYPES, STR_TYPES, protocol, v, validated>>

\* The caller takes a scalar field whose internal type is a known name.
NewKnownField ==
    /\ field = NoField
    /\ \E name \in KnownNames, ml \in MaxLengths, pk \in BOOLEAN, kw \in Kwargs,
       d \in Defaults, help \in HelpTexts, label \in Labels :
        Hold(ScalarField(name, <<"Field", NoGetInternalType>>, ml, pk, kw, d,
                         help, label))

\* The caller takes a scalar field of a custom class.
NewCustomField ==
    /\ field = NoField
    /\ \E name \in CustomNames, anc \in SeqsUpTo(AncestorNames, MaxAncestors),
       ml \in MaxLengths, pk \in BOOLEAN, kw \in Kwargs, d \in Defaults,
       help \in HelpTexts, label \in Labels :
        Hold(ScalarField(name, anc, ml, pk, kw, d, help, label))

\* The caller takes a relation field, with or without a related model.
NewRelationField ==
    /\ field = NoField
    /\ \E rel \in {None, "Model"}, rpk \in PkNames, mpk \in PkNames,
       con \in BOOLEAN, auto \in BOOLEAN, nul \in BOOLEAN, o2m \in BOOLEAN,
       m2m \in BOOLEAN, tgt \in Targets :
        /\ rel = None => (rpk = mpk /\ tgt.default = "NOT_PROVIDED")
        /\ Hold(RelationField(rel, IF rel = None THEN None ELSE rpk, mpk, con,
                              auto, nul, o2m, m2m,
                              IF rel = None THEN NoTarget ELSE tgt))

\* DjangoField(field)
Translate ==
    /\ field # NoField
    /\ calls < MaxCalls
    /\ result' = DjangoField(field)
    /\ first' = IF calls = 0 THEN result' ELSE first
    /\ calls' = calls + 1
    /\ field' = FieldAfterCall(field)
    /\ UNCHANGED <<FIELD_TYPES, INT_TYPES, STR_TYPES, given, protocol, v,
                   validated>>

\* The caller drops the descriptor; the module globals stay as they are.
Release ==
    /\ field # NoField
    /\ calls > 0
    /\ field' = NoField
    /\ given' = NoField
    /\ result' = NoResult
    /\ first' = NoResult
    /\ calls' = 0
    /\ UNCHANGED <<FIELD_TYPES, INT_TYPES, STR_TYPES, protocol, v, validated>>

Next ==
    \/ NewKnownField
    \/ NewCustomField
    \/ NewRelationField
    \/ Translate
    \/ Release

Spec == Init /\ [][Next]_vars

\* A caller picks the class (its protocol) and the value to validate.
Supply ==
    /\ v = Unsupplied
    /\ \E proto \in Protocols, a \in Values :
        /\ protocol' = proto
        /\ v' = a
    /\ UNCHANGED <<FIELD_TYPES, INT_TYPES, STR_TYPES, field, given, result,
                   first, calls, validated>>

\* GenericIPAddressField.validate(v)
Validate ==
    /\ v # Unsupplied
    /\ validated = NotValidated
    /\ validated' = validate(protocol, v)
    /\ UNCHANGED <<FIELD_TYPES, INT_TYPES, STR_TYPES, field, given, result,
                   first, calls, protocol, v>>

\* The caller is done with the value.
Discard ==
    /\ validated # NotValidated
    /\ v' = Unsupplied
    /\ validated' = NotValidated
    /\ UNCHANGED <<FIELD_TYPES, INT_TYPES, STR_TYPES, field, given, result,
                   first, calls, protocol>>

NextValidate ==
    \/ Supply
    \/ Validate
    \/ Discard

SpecValidate == Init /\ [][NextValidate]_vars

(* ------------------------------- claims -------------------------------- *)

\* A DjangoField call was made on the descriptor the caller holds.
Called == calls > 0

InStrGroup(name) == InList(name, StrTypesInit)

InIntGroup(name) == InList(name, IntTypesInit)

InTable(name) == name \in DOMAIN FieldTypesInit

Direct(name) == InStrGroup(name) \/ InIntGroup(name) \/ InTable(name)

\* Positions of the walked hierarchy whose class reports a table key.
Matching(f) == {i \in DOMAIN Mro(f) : InTable(Mro(f)[i])}

FirstMatching(f) == CHOOSE i \in Matching(f) : \A j \in Matching(f) : i <= j

OptionOf(f, key) == IF key \in DOMAIN f.kwargs THEN f.kwargs[key] ELSE FALSE

\* C1: a scalar field whose internal type is in neither group nor the table,
\* and none of whose ancestors reports a table key, fails with
\* FieldNotFoundError naming that type; a scalar field resolved by group,
\* table or ancestry returns a (type, metadata) pair.
C1_UnresolvedRaisesFieldNotFound ==
    (Called /\ ~given.is_relation) =>
        IF Direct(given.internal_type) \/ Matching(given) # {}
        THEN result.raised = None /\ result.python_type # <<>>
        ELSE /\ result.raised = "FieldNotFoundError"
             /\ result.message = <<"Could not find ", given.internal_type>>

\* C2: the default of a resolved scalar field: the explicit default when
\* there is one (the value itself when it is not callable, whatever the
\* flags), else None when primary key, blank or null, else required.
C2_ScalarDefaultPriority ==
    (Called /\ ~given.is_relation /\ result.raised = None) =>
        LET flags == given.primary_key \/ OptionOf(given, "blank")
                        \/ OptionOf(given, "null")
        IN  /\ (given.default \in {None, "val"})
                => result.info.default = given.default
            /\ (given.default = "fn")
                => /\ result.info.default_factory = "fn"
                   /\ result.info.default = Ellipsis
            /\ (given.default = "NOT_PROVIDED" /\ flags)
                => result.info.default = None
            /\ (given.default = "NOT_PROVIDED" /\ ~flags)
                => result.info.default = Ellipsis

C2_Witness ==
    /\ Called /\ ~given.is_relation /\ result.raised = None
    /\ given.primary_key /\ given.kwargs = EmptyDict
    /\ given.default = "NOT_PROVIDED"
    /\ result.info.default = None

\* C3: in every returned metadata a default factory and a concrete default
\* are never both set; a callable default of a scalar field is the factory
\* and the default stays required, whatever the flags.
C3_FactoryExcludesDefault ==
    (Called /\ result.raised = None) =>
        /\ (result.info.default_factory # None)
            => result.info.default = Ellipsis
        /\ (~given.is_relation /\ given.default = "fn")
            => /\ result.info.default_factory = "fn"
               /\ result.info.default = Ellipsis

C3_Witness ==
    /\ Called /\ ~given.is_relation /\ result.raised = None
    /\ given.default = "fn" /\ given.primary_key
    /\ OptionOf(given, "null") /\ OptionOf(given, "blank")
    /\ result.info.default_factory = "fn"

\* C4 as claimed: every relation field, with or without a related model,
\* gets default None when non-concrete and auto-created, else None when
\* nullable, else required.
C4_DefaultForEveryRelation ==
    (Called /\ given.is_relation) =>
        result.info.default =
            IF ~given.concrete /\ given.auto_created THEN None
            ELSE IF given.null THEN None
            ELSE Ellipsis

\* C4 amended: the policy applies to a relation field that has a related
\* model; without a related model the default is required.
C4_DefaultForRelatedModel ==
    (Called /\ given.is_relation) =>
        result.info.default =
            IF given.related_model = None THEN Ellipsis
            ELSE IF ~given.concrete /\ given.auto_created THEN None
            ELSE IF given.null THEN None
            ELSE Ellipsis

C4_Witness ==
    /\ Called /\ given.is_relation
    /\ given.related_model = None /\ given.null
    /\ result.info.default = Ellipsis

\* C5: a relation field never fails; its type is built from T, the table
\* entry of the primary key's internal type (the related model's, or the
\* owning model's without a related model), int when that is no table key:
\* List[Dict[str, T]] for one-to-many or many-to-many, else T.
C5_RelationType ==
    (Called /\ given.is_relation) =>
        LET name == IF given.related_model = None THEN given.model_pk
                    ELSE given.related_pk
            T == IF InTable(name) THEN FieldTypesInit[name] ELSE "int"
        IN  /\ result.raised = None
            /\ result.python_type =
                IF given.one_to_many \/ given.many_to_many
                THEN <<"List", "Dict", "str", T>>
                ELSE <<T>>

C5_Witness ==
    /\ Called /\ given.is_relation
    /\ given.many_to_many /\ ~given.one_to_many
    /\ given.related_pk = "CharField"
    /\ result.python_type = <<"List", "Dict", "str", "int">>

\* C6: a string-like name (TextField included) gives str and the field's
\* max_length; an integer-like name gives int.
C6_GroupsBeforeTable ==
    (Called /\ ~given.is_relation) =>
        /\ InStrGroup(given.internal_type)
            => /\ result.raised = None
               /\ result.python_type = <<"str">>
               /\ result.info.max_length = given.max_length
        /\ InIntGroup(given.internal_type)
            => /\ result.raised = None
               /\ result.python_type = <<"int">>

C6_Witness ==
    /\ Called /\ ~given.is_relation
    /\ given.internal_type = "TextField" /\ given.max_length = "255"
    /\ result.python_type = <<"str">> /\ result.info.max_length = "255"

\* C8: for a scalar field whose own name is in neither group nor the
\* table, the type is the table entry of the first ancestor in the walk
\* that reports a table key, and the walk runs to the end of the hierarchy
\* (then failing as unresolved) when no ancestor does.
C8_FirstMatchingAncestor ==
    (Called /\ ~given.is_relation /\ ~Direct(given.internal_type)) =>
        IF Matching(given) # {}
        THEN /\ result.raised = None
             /\ result.python_type =
                    <<FieldTypesInit[Mro(given)[FirstMatching(given)]]>>
        ELSE result.raised = "FieldNotFoundError"

\* C9: the metadata of a relation field has no title, description,
\* max_length or default factory, and its default is None or required,
\* whatever the target field carries.
C9_RelationMetadataUnset ==
    (Called /\ given.is_relation) =>
        /\ result.raised = None
        /\ result.info.title = NoTitle
        /\ result.info.description = None
        /\ result.info.max_length = None
        /\ result.info.default_factory = None
        /\ result.info.default \in {None, Ellipsis}

C9_Witness ==
    /\ Called /\ given.is_relation /\ given.related_model # None
    /\ given.target_field.help_text = "pk help"
    /\ given.target_field.default = "fn"
    /\ given.target_field.max_length = "255"
    /\ result.raised = None /\ result.info.description = None

\* C10: DjangoField calls leave the table, the two groups and the
\* descriptor as they were, and a later call on the same descriptor has
\* the outcome of the first.
C10_CallsLeaveNoTrace ==
    /\ FIELD_TYPES = FieldTypesInit
    /\ INT_TYPES = IntTypesInit
    /\ STR_TYPES = StrTypesInit
    /\ field = given
    /\ Called => result = first

C10_Witness ==
    /\ calls = MaxCalls /\ ~given.is_relation
    /\ OptionOf(given, "blank") /\ given.default = "NOT_PROVIDED"
    /\ ~given.primary_key /\ ~OptionOf(given, "null")
    /\ result.raised = None /\ result.info.default = None

\* C7: under each protocol tag validate returns the canonical str of the
\* address or raises that tag's error: both takes every IPv4 or IPv6
\* input, ipv4 only IPv4 input, ipv6 only IPv6 input.
C7_ValidateByProtocol ==
    (validated # NotValidated /\ protocol \in {"both", "ipv4", "ipv6"}) =>
        LET as4 == IPv4Address(v)
            as6 == IPv6Address(v)
        IN  /\ protocol = "ipv4" =>
                IF as4.raised = None THEN validated = ValidateReturn(Str(as4))
                ELSE validated.raised = "IPv4AddressError"
            /\ protocol = "ipv6" =>
                IF as6.raised = None THEN validated = ValidateReturn(Str(as6))
                ELSE validated.raised = "IPv6AddressError"
            /\ protocol = "both" =>
                IF as4.raised = None THEN validated = ValidateReturn(Str(as4))
                ELSE IF as6.raised = None
                    THEN validated = ValidateReturn(Str(as6))
                ELSE validated.raised = "IPvAnyAddressError"

====
